---------------------------- MODULE Spec2Model ----------------------------
(***************************************************************************)
(* A model of serialupdi-terminal: the linker map parser                   *)
(* (lib/linkermap.py) and the polling side of the terminal window          *)
(* (updi_terminal.py).                                                     *)
(*                                                                         *)
(* Text is a sequence of one-character strings, so that the regular        *)
(* expressions, str.strip, str.splitlines, str.find and int(s, 16) are     *)
(* modelled by what they do to characters.  A Python dict is a sequence of *)
(* <<key, value>> pairs in insertion order, a list is a sequence.  A call  *)
(* returns [exc |-> "" or the exception raised, val |-> the value].        *)
(***************************************************************************)
EXTENDS Integers, Sequences, FiniteSets, TLC

VARIABLES
    text,            \* the argument of the static method under call
    ret,             \* [done, exc, val]: what the call returned or raised
    parsers,         \* the LinkerMapParser objects, by slot
    transport,       \* UpdiTerminal.transport is set (a connection exists)
    parser,          \* UpdiTerminal.parser: <<>> or <<LinkerMapParser>>
    select_section,  \* the section combo box: [items, index]
    section,         \* UpdiTerminal.section: <<>> or <<Section>>
    section_type,    \* UpdiTerminal.section_type, by its name in _type_options
    monitors,        \* UpdiTerminal.monitors: a list of monitor ids
    mon,             \* the UpdiMonitor objects created so far, by id
    reads,           \* the read_data calls of the slot that ran last
    raised           \* the exception the last slot raised, "" when none

fnVars == <<text, ret>>
objVars == <<parsers>>
uiVars == <<transport, parser, select_section, section, section_type,
            monitors, mon, reads, raised>>
vars == <<text, ret, parsers, transport, parser, select_section, section,
          section_type, monitors, mon, reads, raised>>

---------------------------------------------------------------------------
(* Characters.                                                             *)

Space == {" ", "\t", "\n"}
Digit == {"0", "1", "2", "3", "4", "5", "6", "7", "8", "9"}
LowerHex == {"a", "b", "c", "d", "e", "f"}
UpperHex == {"A", "B", "C", "D", "E", "F"}
Lower == {"a", "b", "c", "d", "e", "f", "g", "h", "i", "j", "k", "l", "m",
          "n", "o", "p", "q", "r", "s", "t", "u", "v", "w", "x", "y", "z"}
Upper == {"A", "B", "C", "D", "E", "F", "G", "H", "I", "J", "K", "L", "M",
          "N", "O", "P", "Q", "R", "S", "T", "U", "V", "W", "X", "Y", "Z"}
Punct == {".", "(", ")", "*", "!", "/", ":", "-"}
\* \w of the re module
Word == Lower \cup Upper \cup Digit \cup {"_"}
\* [0-9a-fA-F]
HexDigit == Digit \cup LowerHex \cup UpperHex
Char == Word \cup Space \cup Punct
\* \S of the re module
NonSpace == Char \ Space

HexDigitValue ==
    ("0" :> 0) @@ ("1" :> 1) @@ ("2" :> 2) @@ ("3" :> 3) @@ ("4" :> 4) @@
    ("5" :> 5) @@ ("6" :> 6) @@ ("7" :> 7) @@ ("8" :> 8) @@ ("9" :> 9) @@
    ("a" :> 10) @@ ("b" :> 11) @@ ("c" :> 12) @@ ("d" :> 13) @@
    ("e" :> 14) @@ ("f" :> 15) @@
    ("A" :> 10) @@ ("B" :> 11) @@ ("C" :> 12) @@ ("D" :> 13) @@
    ("E" :> 14) @@ ("F" :> 15)

\* The first index from i on whose character is not in cls (Len(s) + 1 when
\* there is none): the end of a greedy run cls+ or cls* that starts at i.
RECURSIVE SkipWhile(_, _, _)
SkipWhile(s, i, cls) ==
    IF i > Len(s) \/ s[i] \notin cls THEN i ELSE SkipWhile(s, i + 1, cls)

\* The last index down from i whose character is not in cls (0 when none).
RECURSIVE SkipBack(_, _, _)
SkipBack(s, i, cls) ==
    IF i < 1 \/ s[i] \notin cls THEN i ELSE SkipBack(s, i - 1, cls)

\* The first index from i on whose character is c (Len(s) + 1 when none).
RECURSIVE FindChar(_, _, _)
FindChar(s, i, c) ==
    IF i > Len(s) \/ s[i] = c THEN i ELSE FindChar(s, i + 1, c)

\* s[a..b], empty when a > b
Slice(s, a, b) == IF a > b THEN <<>> ELSE SubSeq(s, a, b)

\* str.strip(chars), str.lstrip(chars)
strip(s, cls) == Slice(s, SkipWhile(s, 1, cls), SkipBack(s, Len(s), cls))
lstrip(s, cls) == Slice(s, SkipWhile(s, 1, cls), Len(s))

\* str.splitlines() over "\n", the one line boundary of Char
RECURSIVE splitlinesFrom(_, _)
splitlinesFrom(s, i) ==
    IF i > Len(s) THEN <<>>
    ELSE LET j == FindChar(s, i, "\n")
         IN  <<Slice(s, i, j - 1)>> \o splitlinesFrom(s, j + 1)

splitlines(s) == splitlinesFrom(s, 1)

\* The base-16 value of a run of hexadecimal digits.
RECURSIVE HexValue(_, _)
HexValue(s, n) ==
    IF n = 0 THEN 0 ELSE 16 * HexValue(s, n - 1) + HexDigitValue[s[n]]

\* int(s, 16) for an s without sign, blank or underscore: an optional 0x or
\* 0X, then one or more hexadecimal digits; anything else is a ValueError.
int16(s) ==
    LET pre == Len(s) >= 2 /\ s[1] = "0" /\ s[2] \in {"x", "X"}
        body == IF pre THEN Slice(s, 3, Len(s)) ELSE s
    IN  IF body # <<>> /\ \A i \in 1..Len(body) : body[i] \in HexDigit
        THEN [exc |-> "", val |-> HexValue(body, Len(body))]
        ELSE [exc |-> "ValueError", val |-> 0]

\* s has "0x" at i
Has0x(s, i) == i + 1 <= Len(s) /\ s[i] = "0" /\ s[i + 1] = "x"

\* The least element of a non-empty set of integers
Min(S) == CHOOSE x \in S : \A y \in S : x <= y

\* Concatenation of a sequence of texts
RECURSIVE Concat(_)
Concat(ss) == IF ss = <<>> THEN <<>> ELSE Head(ss) \o Concat(Tail(ss))

\* The sequences over S of length at most n
SeqUpTo(S, n) == UNION {[1..k -> S] : k \in 0..n}

---------------------------------------------------------------------------
(* dict                                                                    *)

DictKeys(d) == [i \in 1..Len(d) |-> d[i][1]]
DictHas(d, k) == \E i \in 1..Len(d) : d[i][1] = k
DictGet(d, k) == d[CHOOSE i \in 1..Len(d) : d[i][1] = k][2]
\* d[k] = v: a new key goes last, a key already there keeps its place
DictSet(d, k, v) ==
    IF DictHas(d, k)
    THEN [i \in 1..Len(d) |-> IF d[i][1] = k THEN <<k, v>> ELSE d[i]]
    ELSE Append(d, <<k, v>>)

---------------------------------------------------------------------------
(* LinkerMapParser._parse_sections                                         *)

NoMatch == [ok |-> FALSE, g1 |-> <<>>, g2 |-> <<>>, g3 |-> <<>>,
            g4 |-> <<>>, end |-> 0]

\* section_pattern matched at i: (\.\w+)\s+0x([0-9a-fA-F]+)\s+0x([0-9a-fA-F]+).
\* Each greedy run is followed by a character outside its class, so no
\* shorter run can match and the longest one is the only candidate.
section_pattern(s, i) ==
    LET e1 == SkipWhile(s, i + 1, Word)
        e2 == SkipWhile(s, e1, Space)
        e3 == SkipWhile(s, e2 + 2, HexDigit)
        e4 == SkipWhile(s, e3, Space)
        e5 == SkipWhile(s, e4 + 2, HexDigit)
    IN  IF /\ i <= Len(s) /\ s[i] = "."
           /\ e1 > i + 1
           /\ e2 > e1 /\ Has0x(s, e2)
           /\ e3 > e2 + 2
           /\ e4 > e3 /\ Has0x(s, e4)
           /\ e5 > e4 + 2
        THEN [ok |-> TRUE, g1 |-> Slice(s, i, e1 - 1),
              g2 |-> Slice(s, e2 + 2, e3 - 1),
              g3 |-> Slice(s, e4 + 2, e5 - 1), g4 |-> <<>>, end |-> e5]
        ELSE NoMatch

\* section_pattern.finditer(content): the matches from i on, leftmost first,
\* the search resuming where a match ends.  starts holds the positions at
\* which the pattern matches.
RECURSIVE finditerFrom(_, _, _)
finditerFrom(s, starts, i) ==
    LET later == {j \in starts : j >= i}
        m == section_pattern(s, Min(later))
    IN  IF later = {} THEN <<>>
        ELSE <<m>> \o finditerFrom(s, starts, m.end)

finditer(s) ==
    finditerFrom(s, {i \in 1..Len(s) : s[i] = "." /\ section_pattern(s, i).ok},
                 1)

Section(name, address, size) ==
    [name |-> name, address |-> address, size |-> size]

AddFirstSection(sections, m) ==
    LET section_name == lstrip(m.g1, {"."})
    IN  IF DictHas(sections, section_name) THEN sections
        ELSE DictSet(sections, section_name,
                     Section(section_name, int16(m.g2).val, int16(m.g3).val))

\* The body of the for loop: sections[section_name] = Section(...)
AddSection(sections, m) ==
    LET section_name == lstrip(m.g1, {"."})
        section_address == int16(m.g2).val
        section_size == int16(m.g3).val
    IN  DictSet(sections, section_name,
                Section(section_name, section_address, section_size))

RECURSIVE AddSections(_, _, _)
AddSections(sections, ms, n) ==
    IF n = 0 THEN sections
    ELSE AddSection(AddSections(sections, ms, n - 1), ms[n])

_parse_sections(content) ==
    LET ms == finditer(content)
    IN  [exc |-> "", val |-> AddSections(<<>>, ms, Len(ms))]

---------------------------------------------------------------------------
(* LinkerMapParser._parse_memory_config                                    *)

\* [0-9a-fx]
HexX == Digit \cup LowerHex \cup {"x"}

\* pattern.match(line): (\S+)\s+([0-9a-fx]+)\s+([0-9a-fx]+)\s+(\S+) matched
\* at the start of the line.  \S, [0-9a-fx] and \s runs alternate and the
\* classes of neighbours are disjoint, so each run is the longest one.
memory_pattern(line) ==
    LET e1 == SkipWhile(line, 1, NonSpace)
        e2 == SkipWhile(line, e1, Space)
        e3 == SkipWhile(line, e2, HexX)
        e4 == SkipWhile(line, e3, Space)
        e5 == SkipWhile(line, e4, HexX)
        e6 == SkipWhile(line, e5, Space)
        e7 == SkipWhile(line, e6, NonSpace)
    IN  IF e1 > 1 /\ e2 > e1 /\ e3 > e2 /\ e4 > e3 /\ e5 > e4 /\ e6 > e5
           /\ e7 > e6
        THEN [ok |-> TRUE, g1 |-> Slice(line, 1, e1 - 1),
              g2 |-> Slice(line, e2, e3 - 1), g3 |-> Slice(line, e4, e5 - 1),
              g4 |-> Slice(line, e6, e7 - 1), end |-> e7]
        ELSE NoMatch

\* for line in lines, from line i on, memory_config being the list so far;
\* an int() that raises ends the call.
RECURSIVE MemoryLoop(_, _, _)
MemoryLoop(lines, i, memory_config) ==
    IF i > Len(lines) THEN [exc |-> "", val |-> memory_config]
    ELSE LET match == memory_pattern(lines[i])
             origin == int16(match.g2)
             length == int16(match.g3)
         IN  IF ~match.ok THEN MemoryLoop(lines, i + 1, memory_config)
             ELSE IF origin.exc # "" THEN [exc |-> origin.exc, val |-> <<>>]
             ELSE IF length.exc # "" THEN [exc |-> length.exc, val |-> <<>>]
             ELSE MemoryLoop(lines, i + 1,
                      Append(memory_config,
                             [Name |-> match.g1, Origin |-> origin.val,
                              Length |-> length.val,
                              Attributes |-> match.g4]))

_parse_memory_config(content) ==
    LET all == splitlines(strip(content, Space))
        lines == Slice(all, 3, Len(all))
    IN  MemoryLoop(lines, 1, <<>>)

---------------------------------------------------------------------------
(* LinkerMapParser._parse_archive_members                                  *)

ArchiveEntry(archive_member, symbol) ==
    ("Archive Member" :> archive_member) @@ ("Symbol" :> symbol)

\* The list with what one line adds to it.
AddArchiveLineRstrip(archive_members, line) ==
    LET split_index == FindChar(line, 1, "(")
        tail == Slice(line, split_index + 1, Len(line))
    IN  IF strip(line, Space) # <<>> /\ split_index <= Len(line)
        THEN Append(archive_members,
                    ArchiveEntry(strip(Slice(line, 1, split_index - 1), Space),
                                 Slice(tail, 1,
                                       SkipBack(tail, Len(tail), {" ", ")"}))))
        ELSE archive_members

\* The body of the for loop; line.find('(') is FindChar, past the end when
\* the line has no '('.
AddArchiveLine(archive_members, line) ==
    LET split_index == FindChar(line, 1, "(")
    IN  IF strip(line, Space) # <<>> /\ split_index <= Len(line)
        THEN LET archive_member ==
                     strip(Slice(line, 1, split_index - 1), Space)
                 symbol ==
                     strip(Slice(line, split_index + 1, Len(line)), {" ", ")"})
             IN  Append(archive_members, ArchiveEntry(archive_member, symbol))
        ELSE archive_members

RECURSIVE ArchiveLoop(_, _)
ArchiveLoop(lines, n) ==
    IF n = 0 THEN <<>>
    ELSE AddArchiveLine(ArchiveLoop(lines, n - 1), lines[n])

_parse_archive_members(content) ==
    LET lines == splitlines(strip(content, Space))
    IN  [exc |-> "", val |-> ArchiveLoop(lines, Len(lines))]

---------------------------------------------------------------------------
(* LinkerMapParser._pre_parse                                              *)

ArchiveHeader ==
    <<"A", "r", "c", "h", "i", "v", "e", " ", "m", "e", "m", "b", "e", "r",
    " ", "i", "n", "c", "l", "u", "d", "e", "d", " ", "t", "o", " ", "s",
    "a", "t", "i", "s", "f", "y", " ", "r", "e", "f", "e", "r", "e", "n",
    "c", "e", " ", "b", "y", " ", "f", "i", "l", "e", " ", "(", "s", "y",
    "m", "b", "o", "l", ")">>
DiscardedHeader ==
    <<"D", "i", "s", "c", "a", "r", "d", "e", "d", " ", "i", "n", "p", "u",
    "t", " ", "s", "e", "c", "t", "i", "o", "n", "s">>
MemoryHeader ==
    <<"M", "e", "m", "o", "r", "y", " ", "C", "o", "n", "f", "i", "g", "u",
    "r", "a", "t", "i", "o", "n">>
LinkerHeader ==
    <<"L", "i", "n", "k", "e", "r", " ", "s", "c", "r", "i", "p", "t", " ",
    "a", "n", "d", " ", "m", "e", "m", "o", "r", "y", " ", "m", "a", "p">>

headers == <<ArchiveHeader, DiscardedHeader, MemoryHeader, LinkerHeader>>

\* Python's None, as an element of the list re.split returns
None == <<"None">>

\* The alternative of pattern that matches at i, the first in the order of
\* the alternation, or 0: the headers are escaped, so each matches itself.
pattern(s, i) ==
    LET hit(k) == /\ i + Len(headers[k]) - 1 <= Len(s)
                  /\ s[i] = headers[k][1]
                  /\ SubSeq(s, i, i + Len(headers[k]) - 1) = headers[k]
    IN  IF \E k \in 1..4 : hit(k)
        THEN CHOOSE k \in 1..4 : hit(k) /\ \A j \in 1..(k - 1) : ~hit(j)
        ELSE 0

\* pattern.split(content) from i on, starts holding the positions at which
\* pattern matches: the text up to the next match, the four groups of the
\* match (None for the alternatives that did not match), and the rest split
\* the same way.
RECURSIVE splitFrom(_, _, _)
splitFrom(s, starts, i) ==
    LET later == {j \in starts : j >= i}
        at == Min(later)
        k == pattern(s, at)
    IN  IF later = {} THEN <<Slice(s, i, Len(s))>>
        ELSE <<Slice(s, i, at - 1)>>
             \o [j \in 1..4 |-> IF j = k THEN headers[k] ELSE None]
             \o splitFrom(s, starts, at + Len(headers[k]))

split(s) == splitFrom(s, {i \in 1..Len(s) : pattern(s, i) # 0}, 1)

IsHeader(t) == \E k \in 1..4 : headers[k] = t

DictAppendText(d, k, t) == DictSet(d, k, DictGet(d, k) \o t)

PreParseStepKeeping(st, sec) ==
    IF sec = None THEN st
    ELSE IF IsHeader(strip(sec, Space))
    THEN [current_header |-> strip(sec, Space),
          sections_dict |->
              IF DictHas(st.sections_dict, strip(sec, Space))
              THEN st.sections_dict
              ELSE DictSet(st.sections_dict, strip(sec, Space), <<>>)]
    ELSE IF st.current_header # None
    THEN [st EXCEPT !.sections_dict =
              DictAppendText(@, st.current_header, strip(sec, Space))]
    ELSE st

\* The body of the for loop over the split list; st is current_header and
\* sections_dict.
PreParseStep(st, sec) ==
    IF sec = None THEN st
    ELSE IF IsHeader(strip(sec, Space))
    THEN [current_header |-> strip(sec, Space),
          sections_dict |->
              DictSet(st.sections_dict, strip(sec, Space), <<>>)]
    ELSE IF st.current_header # None
    THEN [st EXCEPT !.sections_dict =
              DictAppendText(@, st.current_header, strip(sec, Space))]
    ELSE st

RECURSIVE PreParseLoop(_, _)
PreParseLoop(sections, n) ==
    IF n = 0 THEN [current_header |-> None, sections_dict |-> <<>>]
    ELSE PreParseStep(PreParseLoop(sections, n - 1), sections[n])

_pre_parse(content) ==
    LET sections == split(content)
    IN  [exc |-> "",
         val |-> PreParseLoop(sections, Len(sections)).sections_dict]

---------------------------------------------------------------------------
(* LinkerMapParser: __init__ and parse                                     *)

\* An object before __init__ has run: `set` holds the names of the result
\* attributes assigned so far, `calls` counts the calls of parse().
NoParser == [state |-> "none", content |-> <<>>, exc |-> "", calls |-> 0,
             archive_members |-> <<>>, discarded_sections |-> <<>>,
             memory_config |-> <<>>, memory_sections |-> <<>>, set |-> {}]

Raise(self, e) == [self EXCEPT !.exc = e, !.state = "raised"]

parseAppending(self) ==
    LET linker_blocks == _pre_parse(self.content).val
        has(k) == DictHas(linker_blocks, headers[k])
        block(k) == DictGet(linker_blocks, headers[k])
        s0 == [self EXCEPT !.calls = @ + 1, !.exc = ""]
        s1 == [s0 EXCEPT
                  !.archive_members =
                      @ \o _parse_archive_members(block(1)).val,
                  !.set = @ \cup {"archive_members"}]
        s2 == [s1 EXCEPT
                  !.discarded_sections = _parse_sections(block(2)).val,
                  !.set = @ \cup {"discarded_sections"}]
        mc == _parse_memory_config(block(3))
        s3 == [s2 EXCEPT !.memory_config = mc.val,
                         !.set = @ \cup {"memory_config"}]
        s4 == [s3 EXCEPT
                  !.memory_sections = _parse_sections(block(4)).val,
                  !.set = @ \cup {"memory_sections"},
                  !.state = "ok"]
    IN  IF ~has(1) THEN Raise(s0, "KeyError")
        ELSE IF ~has(2) THEN Raise(s1, "KeyError")
        ELSE IF ~has(3) THEN Raise(s2, "KeyError")
        ELSE IF mc.exc # "" THEN Raise(s2, mc.exc)
        ELSE IF ~has(4) THEN Raise(s3, "KeyError")
        ELSE s4

\* self.parse(): linker_blocks[header] raises KeyError for a header that
\* _pre_parse did not find, and an exception of a block parser ends the
\* call; the attributes assigned before it stay.
parse(self) ==
    LET linker_blocks == _pre_parse(self.content).val
        has(k) == DictHas(linker_blocks, headers[k])
        block(k) == DictGet(linker_blocks, headers[k])
        s0 == [self EXCEPT !.calls = @ + 1, !.exc = ""]
        s1 == [s0 EXCEPT
                  !.archive_members = _parse_archive_members(block(1)).val,
                  !.set = @ \cup {"archive_members"}]
        s2 == [s1 EXCEPT
                  !.discarded_sections = _parse_sections(block(2)).val,
                  !.set = @ \cup {"discarded_sections"}]
        mc == _parse_memory_config(block(3))
        s3 == [s2 EXCEPT !.memory_config = mc.val,
                         !.set = @ \cup {"memory_config"}]
        s4 == [s3 EXCEPT
                  !.memory_sections = _parse_sections(block(4)).val,
                  !.set = @ \cup {"memory_sections"},
                  !.state = "ok"]
    IN  IF ~has(1) THEN Raise(s0, "KeyError")
        ELSE IF ~has(2) THEN Raise(s1, "KeyError")
        ELSE IF ~has(3) THEN Raise(s2, "KeyError")
        ELSE IF mc.exc # "" THEN Raise(s2, mc.exc)
        ELSE IF ~has(4) THEN Raise(s3, "KeyError")
        ELSE s4

\* LinkerMapParser(content): __init__ sets content and calls parse()
LinkerMapParser(content) == parse([NoParser EXCEPT !.content = content])

---------------------------------------------------------------------------
(* The calls of the static methods: the argument is drawn in the initial   *)
(* state and the call returns once.                                        *)

Pending == [done |-> FALSE, exc |-> "", val |-> <<>>]
Returned(r) == [done |-> TRUE, exc |-> r.exc, val |-> r.val]

ObjIdle == parsers = [p \in {1, 2} |-> NoParser]

\* The window after UpdiTerminal.__init__, no settings file being there: the
\* type combo box got its items, which selected "int".
UiIdle ==
    /\ transport = FALSE
    /\ parser = <<>>
    /\ select_section = [items |-> <<>>, index |-> 0]
    /\ section = <<>>
    /\ section_type = "int"
    /\ monitors = <<>>
    /\ mon = <<>>
    /\ reads = <<>>
    /\ raised = ""

\* Pieces of a section table; a text is a few of them in a row.
SectionPieces == {
    <<".", "b", "s", "s", " ", "0", "x", "2", "0", "0", "0", "0", "0", "0",
      "0", " ", "0", "x", "0", "0", "0", "0", "0", "0", "1", "0">>,
    <<".", "d", "a", "t", "a", " ", "0", "x", "0", "0", "8", "0", "0", "0",
      "6", "0", " ", "0", "x", "1", "A">>,
    <<".", "d", "a", "t", "a", " ", "0", "x", "3", "\n", "0", "x", "f", "f",
      " ">>,
    <<".", ".", "b", "s", "s", "\t", "0", "x", "0", " ", "0", "x", "0">>,
    <<".", "b", "s", "s", " ", "0", "x", "7", " ">>,
    <<"0", "x", "2">>,
    <<" ">>,
    <<"x">> }

MaxSectionPieces == 3

SectionsInit ==
    /\ text \in {Concat(ps) : ps \in SeqUpTo(SectionPieces, MaxSectionPieces)}
    /\ ret = Pending
    /\ ObjIdle /\ UiIdle

Call_parse_sections ==
    /\ ~ret.done
    /\ ret' = Returned(_parse_sections(text))
    /\ UNCHANGED <<text, objVars, uiVars>>

SectionsNext == Call_parse_sections

SectionsSpec == SectionsInit /\ [][SectionsNext]_vars

---------------------------------------------------------------------------
(* _parse_memory_config called on the text of a block.  A block is text    *)
(* that _pre_parse stripped, so it neither starts nor ends with a blank.   *)

\* The lines joined by "\n"
RECURSIVE JoinLines(_)
JoinLines(ls) ==
    IF ls = <<>> THEN <<>>
    ELSE IF Len(ls) = 1 THEN ls[1]
    ELSE ls[1] \o <<"\n">> \o JoinLines(Tail(ls))

IsBlock(t) == strip(t, Space) = t

MemoryLines == {
    <<"N", "a", "m", "e", " ", "O", "r", "i", "g", "i", "n", " ", "L", "e",
    "n", "g", "t", "h", " ", "A", "t", "t", "r", "i", "b", "u", "t", "e",
    "s">>,
    <<"F", "L", "A", "S", "H", " ", " ", " ", " ", "0", "x", "0", "0", "0",
    "0", "0", "0", "0", "0", " ", " ", " ", "0", "x", "0", "0", "0", "4",
    "0", "0", "0", "0", " ", " ", " ", "x", "r">>,
    <<"r", "a", "m", " ", "0", "0", "8", "0", "0", "0", "6", "0", " ", "f",
    "f", " ", "r", "w">>,
    <<"F", "L", "A", "S", "H", " ", "0", "x", "0", "0", "0", "0", "A", "B",
    "C", "D", " ", "0", "x", "0", "0", "0", "4", "0", "0", "0", "0", " ",
    "x", "r">>,
    <<"R", "A", "M", " ", "x", " ", "0", "x", "1", "0", " ", "r", "w">>,
    <<"R", "A", "M", " ", "0", "x", "1", "0", " ", "0", "x", " ", "r", "w">>,
    <<"*", "d", "e", "f", "a", "u", "l", "t", "*", " ", "0", "x", "0", " ",
    "0", "x", "7", "f", "f", "f", "f", "f", "f", "f">> }

MaxMemoryLines == 4

MemoryInit ==
    /\ text \in {t \in {JoinLines(ls) :
                            ls \in SeqUpTo(MemoryLines, MaxMemoryLines)} :
                    IsBlock(t)}
    /\ ret = Pending
    /\ ObjIdle /\ UiIdle

Call_parse_memory_config ==
    /\ ~ret.done
    /\ ret' = Returned(_parse_memory_config(text))
    /\ UNCHANGED <<text, objVars, uiVars>>

MemoryNext == Call_parse_memory_config

MemorySpec == MemoryInit /\ [][MemoryNext]_vars

---------------------------------------------------------------------------
(* _parse_archive_members called on the text of a block                    *)

ArchiveLines == {
    <<"l", "i", "b", "c", ".", "a", "(", "m", "a", "l", "l", "o", "c", ".",
    "o", ")">>,
    <<" ", " ", "c", "r", "t", ".", "o", " ", "(", "e", "x", "i", "t", ")">>,
    <<"a", ".", "o", "(", " ", "c", " ", "d", " ", ")">>,
    <<"a", ".", "o", "(", ")", "b", ")">>,
    <<"n", "o", "p", "a", "r", "e", "n">>,
    <<>>,
    <<"\t">>,
    <<"(">> }

MaxArchiveLines == 4

ArchiveInit ==
    /\ text \in {t \in {JoinLines(ls) :
                            ls \in SeqUpTo(ArchiveLines, MaxArchiveLines)} :
                    IsBlock(t)}
    /\ ret = Pending
    /\ ObjIdle /\ UiIdle

Call_parse_archive_members ==
    /\ ~ret.done
    /\ ret' = Returned(_parse_archive_members(text))
    /\ UNCHANGED <<text, objVars, uiVars>>

ArchiveNext == Call_parse_archive_members

ArchiveSpec == ArchiveInit /\ [][ArchiveNext]_vars

---------------------------------------------------------------------------
(* _pre_parse called on a document: headers and text between them          *)

DocumentPieces ==
    {ArchiveHeader, DiscardedHeader, MemoryHeader, LinkerHeader,
     <<" ", "a", "\n">>, <<"b", " ", "c">>,
     <<"M", "e", "m", "o", "r", "y", " ">>}

MaxDocumentPieces == 4

PreParseInit ==
    /\ text \in {Concat(ps) :
                    ps \in SeqUpTo(DocumentPieces, MaxDocumentPieces)}
    /\ ret = Pending
    /\ ObjIdle /\ UiIdle

Call_pre_parse ==
    /\ ~ret.done
    /\ ret' = Returned(_pre_parse(text))
    /\ UNCHANGED <<text, objVars, uiVars>>

PreParseNext == Call_pre_parse

PreParseSpec == PreParseInit /\ [][PreParseNext]_vars

---------------------------------------------------------------------------
(* Section table parsing                                                   *)

\* The name of a match without its leading '.'
MatchName(m) == Tail(m.g1)

\* The last match of the name k among the matches ms
LastMatchOf(ms, k) ==
    ms[CHOOSE i \in 1..Len(ms) :
           /\ MatchName(ms[i]) = k
           /\ \A j \in (i + 1)..Len(ms) : MatchName(ms[j]) # k]

BssExample == <<".", "b", "s", "s", " ", "0", "x", "2", "0", "0", "0", "0", "0", "0", "0", " ",
    "0", "x", "0", "0", "0", "0", "0", "0", "1", "0">>

\* C5: the mapping _parse_sections returns has exactly one entry for each
\* section name matched in the text, keyed by the name without its leading
\* '.'; the entry's Section bears the key as its name and the base-16 values
\* of the address and size literals of the last match of that name.  The text
\* '.bss 0x20000000 0x00000010' gives bss -> address 0x20000000, size 16.
C5_LastOccurrenceWins ==
    ret.done =>
        LET ms == finditer(text)
            d == ret.val
        IN  /\ ret.exc = ""
            /\ \A i, j \in 1..Len(d) : d[i][1] = d[j][1] => i = j
            /\ {d[i][1] : i \in 1..Len(d)}
                   = {MatchName(ms[i]) : i \in 1..Len(ms)}
            /\ \A i \in 1..Len(d) :
                   LET last == LastMatchOf(ms, d[i][1])
                   IN  d[i][2] = [name |-> d[i][1],
                                  address |-> HexValue(last.g2, Len(last.g2)),
                                  size |-> HexValue(last.g3, Len(last.g3))]
            /\ text = BssExample =>
                   d = << <<<<"b", "s", "s">>,
                            [name |-> <<"b", "s", "s">>,
                             address |-> 536870912, size |-> 16]>> >>

\* A section name was matched twice, with different addresses and sizes.
C5_Witness ==
    /\ ret.done
    /\ \E i, j \in 1..Len(finditer(text)) :
           LET ms == finditer(text)
           IN  /\ i < j
               /\ MatchName(ms[i]) = MatchName(ms[j])
               /\ int16(ms[i].g2).val # int16(ms[j].g2).val
               /\ int16(ms[i].g3).val # int16(ms[j].g3).val
               /\ DictGet(ret.val, MatchName(ms[j])).address
                      = int16(LastMatchOf(ms, MatchName(ms[j])).g2).val

---------------------------------------------------------------------------
(* Memory configuration parsing                                            *)

\* The blank-separated fields of a line from i on
RECURSIVE FieldsFrom(_, _)
FieldsFrom(line, i) ==
    LET a == SkipWhile(line, i, Space)
        b == SkipWhile(line, a, NonSpace)
    IN  IF a > Len(line) THEN <<>>
        ELSE <<Slice(line, a, b - 1)>> \o FieldsFrom(line, b)

Fields(line) == FieldsFrom(line, 1)

\* The digits of a hexadecimal number written with or without 0x
HexDigitsOf(t) ==
    IF Len(t) >= 2 /\ t[1] = "0" /\ t[2] = "x" THEN Slice(t, 3, Len(t))
    ELSE t

\* A hexadecimal number: digits 0-9, a-f, A-F, with or without 0x
IsHexNumber(t) ==
    /\ HexDigitsOf(t) # <<>>
    /\ \A i \in 1..Len(HexDigitsOf(t)) : HexDigitsOf(t)[i] \in HexDigit

\* A line of the shape name, hexadecimal origin, hexadecimal length,
\* attributes
IsMemoryRow(line) ==
    /\ Len(Fields(line)) >= 4
    /\ IsHexNumber(Fields(line)[2])
    /\ IsHexNumber(Fields(line)[3])

MemoryRow(line) ==
    LET f == Fields(line)
    IN  [Name |-> f[1],
         Origin |-> HexValue(HexDigitsOf(f[2]), Len(HexDigitsOf(f[2]))),
         Length |-> HexValue(HexDigitsOf(f[3]), Len(HexDigitsOf(f[3]))),
         Attributes |-> f[4]]

\* The lines of the block after its first two
RowLines(t) == Slice(splitlines(t), 3, Len(splitlines(t)))

\* C2: _parse_memory_config returns for every block text without raising,
\* and a line after the first two that is not a row (name, hexadecimal
\* origin, hexadecimal length, attributes) contributes no entry: every entry
\* returned is the entry of such a row.
C2_MalformedLinesSkipped ==
    ret.done =>
        /\ ret.exc = ""
        /\ \A i \in 1..Len(ret.val) :
               \E j \in 1..Len(RowLines(text)) :
                   /\ IsMemoryRow(RowLines(text)[j])
                   /\ ret.val[i] = MemoryRow(RowLines(text)[j])

RECURSIVE MemoryRows(_, _)
MemoryRows(lines, n) ==
    IF n = 0 THEN <<>>
    ELSE IF IsMemoryRow(lines[n])
    THEN Append(MemoryRows(lines, n - 1), MemoryRow(lines[n]))
    ELSE MemoryRows(lines, n - 1)

\* C6: the first two lines of the block produce no entry, and the rows among
\* the remaining lines produce one entry each, in input order, with the
\* base-16 values of the two hexadecimal fields, written with or without 0x
\* and with any of the digits 0-9, a-f, A-F.
C6_EveryRowParsed ==
    (ret.done /\ ret.exc = "") =>
        ret.val = MemoryRows(RowLines(text), Len(RowLines(text)))

---------------------------------------------------------------------------
(* Archive member parsing                                                  *)

\* t is s with the characters of cls removed from both of its ends
IsTrimOf(t, s, cls) ==
    /\ t # <<>> => t[1] \notin cls /\ t[Len(t)] \notin cls
    /\ \E a \in 0..Len(s) :
           /\ a + Len(t) <= Len(s)
           /\ Slice(s, a + 1, a + Len(t)) = t
           /\ \A j \in 1..a : s[j] \in cls
           /\ \A j \in (a + Len(t) + 1)..Len(s) : s[j] \in cls

\* t is s with the characters of cls removed from its end alone
IsRightTrimOf(t, s, cls) ==
    /\ t # <<>> => t[Len(t)] \notin cls
    /\ Len(t) <= Len(s)
    /\ Slice(s, 1, Len(t)) = t
    /\ \A j \in (Len(t) + 1)..Len(s) : s[j] \in cls

HasParen(line) == \E j \in 1..Len(line) : line[j] = "("
FirstParen(line) ==
    CHOOSE p \in 1..Len(line) :
        line[p] = "(" /\ \A j \in 1..(p - 1) : line[j] # "("
BeforeParen(line) == Slice(line, 1, FirstParen(line) - 1)
AfterParen(line) == Slice(line, FirstParen(line) + 1, Len(line))

\* A non-blank line that contains '('
IsMemberLine(line) ==
    HasParen(line) /\ \E j \in 1..Len(line) : line[j] \notin Space

MemberLines(t) == SelectSeq(splitlines(t), IsMemberLine)

LibcExample == <<"l", "i", "b", "c", ".", "a", "(", "m", "a", "l", "l", "o", "c", ".", "o", ")">>

\* C7 as claimed: one entry for each non-blank line containing '(' and none
\* for any other line, in input order with duplicates kept; the archive
\* member is the trimmed text before the first '(' and the symbol is the text
\* after it with only trailing spaces and ')' removed.
C7_SymbolRightTrimmed ==
    ret.done =>
        LET q == MemberLines(text)
        IN  /\ Len(ret.val) = Len(q)
            /\ \A i \in 1..Len(q) :
                   /\ IsTrimOf(ret.val[i]["Archive Member"],
                               BeforeParen(q[i]), Space)
                   /\ IsRightTrimOf(ret.val[i]["Symbol"], AfterParen(q[i]),
                                    {" ", ")"})

\* C7: one entry for each non-blank line containing '(' and none for any
\* other line, in input order with duplicates kept; the archive member is the
\* trimmed text before the first '(' and the symbol is the text after it with
\* the spaces and ')' at both of its ends removed.  'libc.a(malloc.o)' gives
\* archive member 'libc.a', symbol 'malloc.o'.
C7_SymbolTrimmed ==
    ret.done =>
        LET q == MemberLines(text)
        IN  /\ ret.exc = ""
            /\ Len(ret.val) = Len(q)
            /\ \A i \in 1..Len(q) :
                   /\ DOMAIN ret.val[i] = {"Archive Member", "Symbol"}
                   /\ IsTrimOf(ret.val[i]["Archive Member"],
                               BeforeParen(q[i]), Space)
                   /\ IsTrimOf(ret.val[i]["Symbol"], AfterParen(q[i]),
                               {" ", ")"})
            /\ text = LibcExample =>
                   ret.val = <<ArchiveEntry(<<"l", "i", "b", "c", ".", "a">>,
                                            <<"m", "a", "l", "l", "o", "c",
                                              ".", "o">>)>>

\* Two lines gave the same entry, a line gave none, and a symbol lost a
\* space or a ')' at its start.
C7_Witness ==
    /\ ret.done
    /\ Len(ret.val) < Len(splitlines(text))
    /\ \E i, j \in 1..Len(ret.val) : i < j /\ ret.val[i] = ret.val[j]
    /\ \E i \in 1..Len(ret.val) :
           /\ AfterParen(MemberLines(text)[i]) # <<>>
           /\ AfterParen(MemberLines(text)[i])[1] \in {" ", ")"}
           /\ ret.val[i]["Symbol"] # <<>>

---------------------------------------------------------------------------
(* Document segmentation                                                   *)

\* Where a header occurs in s, and where header k does
HeaderStarts(s) == {i \in 1..Len(s) : pattern(s, i) # 0}
StartsOf(s, k) == {i \in 1..Len(s) : pattern(s, i) = k}

Max(S) == CHOOSE x \in S : \A y \in S : x >= y

\* The trimmed text that follows the header occurring at i, up to the next
\* header or the end of the document
Following(s, i) ==
    LET later == {j \in HeaderStarts(s) : j > i}
        end == IF later = {} THEN Len(s) ELSE Min(later) - 1
    IN  strip(Slice(s, i + Len(headers[pattern(s, i)]), end), Space)

\* The texts following the occurrences at starts, in document order
RECURSIVE ConcatFollowing(_, _)
ConcatFollowing(s, starts) ==
    IF starts = {} THEN <<>>
    ELSE Following(s, Min(starts))
         \o ConcatFollowing(s, starts \ {Min(starts)})

---------------------------------------------------------------------------
(* Parser objects: LinkerMapParser(text) and parser.parse()                *)

ArchiveBlock ==
    ArchiveHeader \o
    <<"\n", "\n", "l", "i", "b", "c", ".", "a", "(", "m", "a", "l", "l",
      "o", "c", ".", "o", ")", "\n", " ", " ", "c", "r", "t", ".", "o", " ",
      "(", "e", "x", "i", "t", ")", "\n">>
DiscardedBlock ==
    DiscardedHeader \o
    <<"\n", "\n", " ", ".", "t", "e", "x", "t", " ", "0", "x", "0", " ",
      "0", "x", "1", "c", " ", "c", "r", "t", ".", "o", "\n">>
MemoryBlock ==
    MemoryHeader \o
    <<"\n", "\n", "N", "a", "m", "e", " ", "O", "r", "i", "g", "i", "n",
      " ", "L", "e", "n", "g", "t", "h", " ", "A", "t", "t", "r", "i", "b",
      "u", "t", "e", "s", "\n", "*", "d", "e", "f", "a", "u", "l", "t", "*",
      " ", "0", "x", "0", " ", "0", "x", "7", "f", "f", "f", "f", "f", "f",
      "f", "\n", "F", "L", "A", "S", "H", " ", "0", "x", "0", "0", "0", "0",
      "0", "0", "0", "0", " ", "0", "x", "0", "0", "0", "4", "0", "0", "0",
      "0", " ", "x", "r", "\n", "\n">>
MalformedMemoryBlock ==
    MemoryHeader \o
    <<"\n", "\n", "N", "a", "m", "e", " ", "O", "r", "i", "g", "i", "n",
      " ", "L", "e", "n", "g", "t", "h", " ", "A", "t", "t", "r", "i", "b",
      "u", "t", "e", "s", "\n", "\n", "R", "A", "M", " ", "x", " ", "0",
      "x", "1", "0", " ", "r", "w", "\n">>
LinkerBlock ==
    LinkerHeader \o
    <<"\n", "\n", ".", "b", "s", "s", " ", "0", "x", "2", "0", "0", "0",
      "0", "0", "0", "0", " ", "0", "x", "0", "0", "0", "0", "0", "0", "1",
      "0", "\n", " ", ".", "d", "a", "t", "a", " ", "0", "x", "0", "0", "8",
      "0", "0", "0", "6", "0", " ", "0", "x", "2", " ", "m", "a", "i", "n",
      ".", "o", "\n">>

DocumentBlocks == {ArchiveBlock, DiscardedBlock, MemoryBlock,
                   MalformedMemoryBlock, LinkerBlock}

MaxDocumentBlocks == 4
MaxParseCalls == 2

ParserInit ==
    /\ text \in {Concat(bs) :
                    bs \in SeqUpTo(DocumentBlocks, MaxDocumentBlocks)}
    /\ ret = Pending
    /\ parsers = [p \in {1, 2} |-> NoParser]
    /\ UiIdle

\* parser = LinkerMapParser(text) or LinkerMapParser.from_file(path), text
\* being what the file holds
Construct(p) ==
    /\ parsers[p].state = "none"
    /\ parsers' = [parsers EXCEPT ![p] = LinkerMapParser(text)]
    /\ UNCHANGED <<fnVars, uiVars>>

\* parser.parse() on a constructed parser
Reparse(p) ==
    /\ parsers[p].state = "ok"
    /\ parsers[p].calls < MaxParseCalls
    /\ parsers' = [parsers EXCEPT ![p] = parse(parsers[p])]
    /\ UNCHANGED <<fnVars, uiVars>>

ParserNext == \E p \in {1, 2} : Construct(p) \/ Reparse(p)

ParserSpec == ParserInit /\ [][ParserNext]_vars

Occurs(k, s) == StartsOf(s, k) # {}

ResultsOf(o) == <<o.archive_members, o.discarded_sections, o.memory_config,
                  o.memory_sections>>

ResultNames == <<"archive_members", "discarded_sections", "memory_config",
                 "memory_sections">>

\* C1: for a text in which one of the four headers does not occur,
\* constructing the parser completes without raising, and the result fed by
\* an absent header is there and empty.
C1_MissingHeaderTolerated ==
    \A p \in {1, 2} :
        (/\ parsers[p].state # "none"
         /\ \E k \in 1..4 : ~Occurs(k, parsers[p].content)) =>
            /\ parsers[p].exc = ""
            /\ \A k \in 1..4 :
                   ~Occurs(k, parsers[p].content) =>
                       /\ ResultNames[k] \in parsers[p].set
                       /\ ResultsOf(parsers[p])[k] = <<>>

\* C3: the block parses are independent: whatever the Memory Configuration
\* block holds, all four results are there after parse(), and
\* archive_members, discarded_sections and memory_sections are what their
\* own blocks give.
C3_BlocksIndependent ==
    \A p \in {1, 2} :
        (/\ parsers[p].state # "none"
         /\ \A k \in 1..4 : Occurs(k, parsers[p].content)) =>
            LET blocks == _pre_parse(parsers[p].content).val
            IN  /\ parsers[p].set = {ResultNames[k] : k \in 1..4}
                /\ parsers[p].archive_members
                       = _parse_archive_members(
                             DictGet(blocks, ArchiveHeader)).val
                /\ parsers[p].discarded_sections
                       = _parse_sections(DictGet(blocks, DiscardedHeader)).val
                /\ parsers[p].memory_sections
                       = _parse_sections(DictGet(blocks, LinkerHeader)).val

\* Two parsers constructed from the same text hold equal results.
SameTextSameResults ==
    \A p, q \in {1, 2} :
        (/\ parsers[p].state = "ok" /\ parsers[q].state = "ok"
         /\ parsers[p].content = parsers[q].content) =>
            ResultsOf(parsers[p]) = ResultsOf(parsers[q])

\* A step that leaves the content of a constructed parser alone leaves its
\* four results alone.
ReparseChangesNothing ==
    \A p \in {1, 2} :
        (/\ parsers[p].state = "ok"
         /\ parsers'[p].content = parsers[p].content) =>
            /\ parsers'[p].state = "ok"
            /\ ResultsOf(parsers'[p]) = ResultsOf(parsers[p])

\* C8: parsing is deterministic and idempotent: two parsers constructed from
\* the same text hold equal archive_members, discarded_sections,
\* memory_config and memory_sections, and parse() called again on a
\* constructed parser whose content is unchanged leaves the four as they
\* were.
C8_DeterministicIdempotent ==
    [](SameTextSameResults) /\ [][ReparseChangesNothing]_vars

\* Both parsers are constructed from a text that fills all four results, and
\* parse() ran again on one of them and not on the other.
C8_Witness ==
    /\ parsers[1].state = "ok" /\ parsers[2].state = "ok"
    /\ parsers[1].calls = 2 /\ parsers[2].calls = 1
    /\ \A k \in 1..4 : ResultsOf(parsers[1])[k] # <<>>

---------------------------------------------------------------------------
(* UpdiTerminal and UpdiMonitor                                            *)

\* The .map files on disk: two that parse, each with a section of its own,
\* and an empty one.
FlagFile ==
    ArchiveBlock \o DiscardedBlock \o MemoryBlock \o LinkerHeader \o
    <<"\n", "\n", ".", "f", "l", "a", "g", " ", "0", "x", "6", "0", " ",
      "0", "x", "1", " ", "m", "a", "i", "n", ".", "o", "\n">>
CountFile ==
    ArchiveBlock \o DiscardedBlock \o MemoryBlock \o LinkerHeader \o
    <<"\n", "\n", ".", "c", "o", "u", "n", "t", " ", "0", "x", "6", "2",
      " ", "0", "x", "2", " ", "m", "a", "i", "n", ".", "o", "\n">>
EmptyFile == <<>>

MapFiles == <<FlagFile, CountFile, EmptyFile>>

\* LinkerMapParser.from_file(path), by file
from_file == [f \in 1..3 |-> LinkerMapParser(MapFiles[f])]

\* The bytes a target holds, and what read_data(address, size) may return
ByteValues == {0, 255}
ReadData(size) == [1..size -> ByteValues]

\* The values np.random.randint(0, 100) is drawn from here
SimValues == {65}

\* int.from_bytes(b, 'little')
RECURSIVE LittleEndian(_, _)
LittleEndian(b, n) ==
    IF n = 0 THEN 0 ELSE 256 * LittleEndian(Tail(b), n - 1) + Head(b)

\* parse_bytes(bytearray, data_type): a value is a tuple of integers, <<n>>
\* for an int, <<0>> or <<1>> for a bool, the code points for a str.
\* bytearray.decode() raises on a byte that no UTF-8 text starts with; of
\* ByteValues that is 255.
parse_bytes(b, data_type) ==
    CASE data_type = "bool" ->
             [exc |-> "",
              val |-> <<IF \E i \in 1..Len(b) : b[i] # 0 THEN 1 ELSE 0>>]
      [] data_type = "int" ->
             [exc |-> "", val |-> <<LittleEndian(b, Len(b))>>]
      [] data_type = "str" ->
             IF \E i \in 1..Len(b) : b[i] >= 128
             THEN [exc |-> "UnicodeDecodeError", val |-> <<>>]
             ELSE [exc |-> "", val |-> b]
      [] OTHER -> [exc |-> "TypeError", val |-> <<>>]

data_max_size == 100

\* UpdiMonitor(parent, section, section_type).  text is what text_widget
\* shows, <<>> or <<value>>; result is QDialog.result().
UpdiMonitor(sec, type) ==
    [section |-> sec, section_type |-> type, result |-> 0, text |-> <<>>,
     data |-> <<>>, data_max_size |-> data_max_size]

\* deque(d, n): the last n values of d
Deque(d, n) == IF n >= Len(d) THEN d ELSE Slice(d, Len(d) - n + 1, Len(d))

\* deque(maxlen = n) after append(v)
DequeAppend(d, n, v) ==
    Deque(Append(d, v), n)

\* monitor.update_value(value): [exc, val], val the monitor afterwards
update_value(m, value) ==
    LET v == parse_bytes(value, m.section_type)
    IN  IF v.exc # "" THEN [exc |-> v.exc, val |-> m]
        ELSE [exc |-> "",
              val |-> [m EXCEPT !.text = <<v.val>>,
                                !.data = DequeAppend(@, m.data_max_size, v.val)]]

MaxMonitors == 2
MaxSeries == 1
MaxItems == 2

\* A monitor whose series may take one more value: it is short, or its
\* maxlen keeps it short
CanAppend(m) == Len(m.data) < MaxSeries \/ m.data_max_size <= MaxSeries

\* serial_connect__clicked_receiver: UpdiApplication(port, 9600) opens the
\* port or raises, and the slot then leaves transport None
serial_connect__clicked_receiver ==
    /\ transport' \in (IF transport THEN {TRUE} ELSE BOOLEAN)
    /\ raised' = ""
    /\ reads' = <<>>
    /\ UNCHANGED <<fnVars, objVars, parser, select_section, section,
                   section_type, monitors, mon>>

\* map_file__editingFinished_receiver for the path of file f.  addItems on
\* an empty combo box makes its first item current, which runs
\* select_section__currentIndexChanged_receiver.
map_file__editingFinished_receiver(f) ==
    \E new \in {from_file[f]} :
        LET keys == DictKeys(new.memory_sections)
            items == select_section.items \o keys
            first == select_section.items = <<>> /\ keys # <<>>
        IN  IF new.state # "ok"
            THEN /\ raised' = new.exc
                 /\ UNCHANGED <<parser, select_section, section>>
            ELSE /\ raised' = ""
                 /\ parser' = <<new>>
                 /\ select_section' =
                        [items |-> items,
                         index |-> IF first THEN 1
                                   ELSE select_section.index]
                 /\ section' =
                        IF first
                        THEN <<DictGet(new.memory_sections, items[1])>>
                        ELSE section

LoadMap(f) ==
    /\ map_file__editingFinished_receiver(f)
    /\ Len(select_section'.items) <= MaxItems
    /\ reads' = <<>>
    /\ UNCHANGED <<fnVars, objVars, transport, section_type, monitors, mon>>

\* The user makes item i of the section combo box current:
\* select_section__currentIndexChanged_receiver
select_section__currentIndexChanged_receiver(i) ==
    /\ i # select_section.index
    /\ select_section' = [select_section EXCEPT !.index = i]
    /\ IF parser = <<>>
       THEN raised' = "" /\ UNCHANGED section
       ELSE IF DictHas(parser[1].memory_sections, select_section.items[i])
       THEN /\ raised' = ""
            /\ section' = <<DictGet(parser[1].memory_sections,
                                    select_section.items[i])>>
       ELSE raised' = "KeyError" /\ UNCHANGED section
    /\ reads' = <<>>
    /\ UNCHANGED <<fnVars, objVars, transport, parser, section_type,
                   monitors, mon>>

\* select_section_type__currentIndexChanged_receiver
select_section_type__currentIndexChanged_receiver(t) ==
    /\ t # section_type
    /\ section_type' = t
    /\ raised' = ""
    /\ reads' = <<>>
    /\ UNCHANGED <<fnVars, objVars, transport, parser, select_section,
                   section, monitors, mon>>

\* monitor__clicked_receiver
monitor__clicked_receiver ==
    /\ Len(mon) < MaxMonitors
    /\ raised' = ""
    /\ reads' = <<>>
    /\ IF ~transport \/ section = <<>>
       THEN UNCHANGED <<monitors, mon>>
       ELSE /\ mon' = Append(mon, UpdiMonitor(section[1], section_type))
            /\ monitors' = Append(monitors, Len(mon) + 1)
    /\ UNCHANGED <<fnVars, objVars, transport, parser, select_section,
                   section, section_type>>

\* The for loop of monitor_timer__timeout_receiver from the i-th monitor of
\* the list on, res[i] being what read_data returns for it; st is the monitor
\* objects, the read_data calls made and the exception raised.  A call is
\* [address, size, res, monitor], monitor the one whose update_value got
\* res.  An exception of update_value ends the slot.
RECURSIVE PollLoop(_, _, _, _)
PollLoop(live, res, i, st) ==
    IF i > Len(live) THEN st
    ELSE LET id == live[i]
             m == st.mon[id]
             u == update_value(m, res[i])
             read == [address |-> m.section.address,
                      size |-> m.section.size, res |-> res[i],
                      monitor |-> id]
             next == [mon |-> [st.mon EXCEPT ![id] = u.val],
                      reads |-> Append(st.reads, read), exc |-> u.exc]
         IN  IF u.exc # "" THEN next ELSE PollLoop(live, res, i + 1, next)

\* not m.result()
IsOpen(id) == mon[id].result = 0

\* monitor_timer__timeout_receiver
monitor_timer__timeout_receiver ==
    /\ \A i \in 1..Len(monitors) :
           IsOpen(monitors[i]) => CanAppend(mon[monitors[i]])
    /\ IF ~transport
       THEN /\ raised' = ""
            /\ reads' = <<>>
            /\ UNCHANGED <<monitors, mon>>
       ELSE LET live == SelectSeq(monitors, IsOpen)
            IN  \E res \in {r \in [1..Len(live) -> UNION {ReadData(n) :
                                                         n \in 0..2}] :
                               \A i \in 1..Len(live) :
                                   Len(r[i]) = mon[live[i]].section.size} :
                    LET st == PollLoop(live, res, 1,
                                       [mon |-> mon, reads |-> <<>>,
                                        exc |-> ""])
                    IN  /\ monitors' = live
                        /\ mon' = st.mon
                        /\ raised' = st.exc
                        /\ reads' = st.reads
    /\ UNCHANGED <<fnVars, objVars, transport, parser, select_section,
                   section, section_type>>

\* UpdiMonitor.closeEvent of monitor id: accept() sets its result
closeEvent(id) ==
    /\ mon[id].result = 0
    /\ mon' = [mon EXCEPT ![id].result = 1]
    /\ raised' = ""
    /\ reads' = <<>>
    /\ UNCHANGED <<fnVars, objVars, transport, parser, select_section,
                   section, section_type, monitors>>

\* UpdiMonitor.test_timer__timeout_receiver of monitor id, which auto_connect
\* connects to the monitor's own test_timer: a random value, as two bytes
test_timer__timeout_receiver(id) ==
    /\ CanAppend(mon[id])
    /\ \E value \in SimValues :
           LET u == update_value(mon[id], <<value % 256, value \div 256>>)
           IN  /\ mon' = [mon EXCEPT ![id] = u.val]
               /\ raised' = u.exc
    /\ reads' = <<>>
    /\ UNCHANGED <<fnVars, objVars, transport, parser, select_section,
                   section, section_type, monitors>>

\* UpdiMonitor.plot_length__valueChanged_receiver of monitor id, the spin box
\* showing n: deque(current_data, n) keeps the last n values
plot_length__valueChanged_receiver(id, n) ==
    /\ n # mon[id].data_max_size
    /\ mon' = [mon EXCEPT
                  ![id].data_max_size = n,
                  ![id].data = Deque(@, n)]
    /\ raised' = ""
    /\ reads' = <<>>
    /\ UNCHANGED <<fnVars, objVars, transport, parser, select_section,
                   section, section_type, monitors>>

\* The values the user gives plot_length
PlotLengths == {1, data_max_size}

TerminalInit ==
    /\ text = <<>>
    /\ ret = Pending
    /\ ObjIdle
    /\ UiIdle

TerminalNext ==
    \/ serial_connect__clicked_receiver
    \/ \E f \in 1..3 : LoadMap(f)
    \/ \E i \in 1..Len(select_section.items) :
           select_section__currentIndexChanged_receiver(i)
    \/ \E t \in {"int", "bool", "str"} :
           select_section_type__currentIndexChanged_receiver(t)
    \/ monitor__clicked_receiver
    \/ monitor_timer__timeout_receiver
    \/ \E id \in 1..Len(mon) : closeEvent(id)
    \/ \E id \in 1..Len(mon) : test_timer__timeout_receiver(id)
    \/ \E id \in 1..Len(mon), n \in PlotLengths :
           plot_length__valueChanged_receiver(id, n)

TerminalSpec == TerminalInit /\ [][TerminalNext]_vars

---------------------------------------------------------------------------
(* Polling and display.                                                    *)

\* The read_data call c is for monitor id: its own address and size, and the
\* bytes it returned went to the update_value of id
IsReadFor(c, id) ==
    /\ c.monitor = id
    /\ c.address = mon[id].section.address
    /\ c.size = mon[id].section.size
    /\ Len(c.res) = c.size

\* C9: on every monitor_timer tick with a transport connected, read_data is
\* called exactly once for each monitor of the list that is not closed, in
\* the order of the list, with that monitor's section address and size, and
\* the bytes go to that monitor; the closed monitors leave the list and are
\* not read for; with no transport a tick reads nothing and changes no
\* monitor.
C9_EveryOpenMonitorRead ==
    [][monitor_timer__timeout_receiver =>
           IF transport
           THEN LET open == SelectSeq(monitors, IsOpen)
                IN  /\ monitors' = open
                    /\ Len(reads') = Len(open)
                    /\ \A i \in 1..Len(open) : IsReadFor(reads'[i], open[i])
           ELSE reads' = <<>> /\ mon' = mon /\ monitors' = monitors]_vars

\* The monitor id before the step; one the step created starts empty
Before(id) ==
    IF id <= Len(mon) THEN mon[id]
    ELSE UpdiMonitor(mon'[id].section, mon'[id].section_type)

\* d is the last values of e, as after deque(e, n)
IsTailOf(d, e) ==
    Len(d) <= Len(e) /\ d = Deque(e, Len(d))

\* The step shows a value in monitor id, or puts one in its series
Shows(id) ==
    \/ mon'[id].text # Before(id).text
    \/ ~IsTailOf(mon'[id].data, Before(id).data)

\* C10: the value a monitor displays, and every value of its rolling series,
\* is the interpretation of the bytes that a read_data call for the
\* monitor's section returned: a step that shows a value in a monitor or
\* puts one in its series is a polling tick that read for that monitor, and
\* the value shown is parse_bytes of what the read returned.
C10_DisplayedValueWasRead ==
    [][\A id \in 1..Len(mon') :
           Shows(id) =>
               \E k \in 1..Len(reads') :
                   /\ IsReadFor(reads'[k], id)
                   /\ mon'[id].text =
                          <<parse_bytes(reads'[k].res,
                                        mon'[id].section_type).val>>]_vars

---------------------------------------------------------------------------
(* The section combo box.                                                  *)

\* Every name the combo box offers is a key of self.parser.memory_sections
OfferedNamesAreKeys ==
    \A i \in 1..Len(select_section.items) :
        /\ parser # <<>>
        /\ DictHas(parser[1].memory_sections, select_section.items[i])

\* A step that makes an offered name current raises nothing
SelectingSucceeds ==
    \A i \in 1..Len(select_section.items) :
        select_section__currentIndexChanged_receiver(i) => raised' = ""

\* C11: after any map file loads and section selections, every name offered
\* in the section combo box is a key of the memory_sections of the parser
\* loaded last, names of a map file loaded before being offered no more, so
\* that making any offered name current finds its Section and never raises
\* KeyError.
C11_OfferedNamesResolve ==
    [](OfferedNamesAreKeys) /\ [][SelectingSucceeds]_vars

=============================================================================
